---- MODULE Spec2Model ----
(***************************************************************************)
(* PDF-para-EXCEL: the section-5 extraction engine of main.py and of the   *)
(* stand-alone script tratamento.py.                                       *)
(*                                                                         *)
(* Strings are TLA+ strings, read character by character with SubSeq, so   *)
(* every regular expression and string method of the source is an          *)
(* operator that scans characters the way the source's call does.          *)
(* A Python float that holds an amount is the record [units, cents]: the   *)
(* amounts of the model have at most two fractional digits and stay far    *)
(* below 2^53 cents, where the double carries them exactly. Its field      *)
(* special names the floats inf and nan.                                   *)
(* The strings of the model are ASCII: the accented letters of the         *)
(* source's patterns and texts are written without the accent, in the      *)
(* pattern and in the texts alike.                                         *)
(***************************************************************************)
EXTENDS Integers, Sequences, FiniteSets, TLC

VARIABLES
    pc,              \* position of the running program
    impl,            \* "main" (main.py) or "tratamento" (tratamento.py)
    texto,           \* full text of the document handed to the engine
    section,         \* result of the section locator
    lines,           \* normalized lines of the section
    i,               \* cursor of parse_table (0-based, as in the source)
    rows,            \* rows emitted so far by parse_table, then the DataFrame
    anterior,        \* cursor before the last step of parse_table
    regra,           \* rule applied by the last step of parse_table
    latest,          \* result of filter_most_recent
    saida,           \* what the engine hands to its caller
    lista_caminhos,  \* argument of extrair_em_lote
    feitos,          \* documents extrair_em_lote has gone through
    dados,           \* dict built by extrair_dados_pdf
    resultados,      \* list built by extrair_em_lote
    s,               \* codec: input string
    x,               \* codec: parsed amount
    t                \* codec: formatted amount

vars == <<pc, impl, texto, section, lines, i, rows, anterior, regra, latest, saida,
          lista_caminhos, feitos, dados, resultados, s, x, t>>

(***************************************************************************)
(* Python values                                                           *)
(***************************************************************************)
\* None, kept apart from every string of the model
None == "<None>"

\* pandas NaT, kept apart from every date ordinal
NaT == 0

\* the result of a call that returned v
Ok(v) == [exc |-> "", msg |-> "", val |-> v]

\* the result of a call that raised an exception of type e with str(e) = m
Raise(e, m) == [exc |-> e, msg |-> m, val |-> None]

(***************************************************************************)
(* str methods                                                             *)
(***************************************************************************)
Char(str, p) == IF p >= 1 /\ p <= Len(str) THEN SubSeq(str, p, p) ELSE ""

\* the characters re's \s and str.strip()/split() treat as whitespace
WHITESPACE == {" ", "\t", "\n", "\r", "\f"}

\* the line boundaries of str.splitlines()
LINE_BREAKS == {"\n", "\r", "\f"}

DIGITS == "0123456789"

UPPERCASE == "ABCDEFGHIJKLMNOPQRSTUVWXYZ"

LOWERCASE == "abcdefghijklmnopqrstuvwxyz"

DIGIT_SET == {"0", "1", "2", "3", "4", "5", "6", "7", "8", "9"}

UPPER_SET == {"A", "B", "C", "D", "E", "F", "G", "H", "I", "J", "K", "L", "M",
              "N", "O", "P", "Q", "R", "S", "T", "U", "V", "W", "X", "Y", "Z"}

IsDigit(c) == c \in DIGIT_SET

DigitVal(c) == (CHOOSE k \in 1..10 : Char(DIGITS, k) = c) - 1

Min(S) == CHOOSE m \in S : \A n \in S : m <= n

\* first position >= p that holds no whitespace (re's \s* from p)
RECURSIVE SkipWs(_, _)
SkipWs(str, p) ==
    IF p <= Len(str) /\ Char(str, p) \in WHITESPACE THEN SkipWs(str, p + 1) ELSE p

\* last position <= p that holds no whitespace
RECURSIVE SkipWsBack(_, _)
SkipWsBack(str, p) ==
    IF p >= 1 /\ Char(str, p) \in WHITESPACE THEN SkipWsBack(str, p - 1) ELSE p

\* str.strip()
strip(str) == SubSeq(str, SkipWs(str, 1), SkipWsBack(str, Len(str)))

\* the literal lit stands at position p of str
LitAt(str, p, lit) ==
    /\ p >= 1
    /\ p + Len(lit) - 1 <= Len(str)
    /\ SubSeq(str, p, p + Len(lit) - 1) = lit

\* str.startswith(lit)
startswith(str, lit) == LitAt(str, 1, lit)

\* lit in str
contains(str, lit) == \E p \in 1..Len(str) : LitAt(str, p, lit)

\* str.replace(old, new) for a single character old, as every call of the
\* source without a count has; the string is rebuilt by halves
RECURSIVE replace(_, _, _)
replace(str, old, new) ==
    IF Len(str) = 0 THEN ""
    ELSE IF Len(str) = 1 THEN (IF str = old THEN new ELSE str)
    ELSE replace(SubSeq(str, 1, Len(str) \div 2), old, new)
         \o replace(SubSeq(str, (Len(str) \div 2) + 1, Len(str)), old, new)

\* str.replace(old, new, 1)
replace_1(str, old, new) ==
    LET at == {p \in 1..Len(str) : LitAt(str, p, old)}
    IN IF at = {} THEN str
       ELSE SubSeq(str, 1, Min(at) - 1) \o new
            \o SubSeq(str, Min(at) + Len(old), Len(str))

\* str.lower(), one character
lower_char(c) ==
    IF c \in UPPER_SET
    THEN Char(LOWERCASE, CHOOSE k \in 1..26 : Char(UPPERCASE, k) = c)
    ELSE c

\* str.lower(), rebuilt by halves
RECURSIVE lower(_)
lower(str) ==
    IF Len(str) = 0 THEN ""
    ELSE IF Len(str) = 1 THEN lower_char(str)
    ELSE lower(SubSeq(str, 1, Len(str) \div 2))
         \o lower(SubSeq(str, (Len(str) \div 2) + 1, Len(str)))

\* str.split()[0]: the first whitespace-delimited word
first_word(str) ==
    LET b == SkipWs(str, 1)
        ends == {p \in b..Len(str) : Char(str, p) \in WHITESPACE}
    IN SubSeq(str, b, IF ends = {} THEN Len(str) ELSE Min(ends) - 1)

\* str.splitlines() of the text from position start on
RECURSIVE splitlines_from(_, _)
splitlines_from(str, start) ==
    LET breaks == {p \in start..Len(str) : Char(str, p) \in LINE_BREAKS}
    IN IF start > Len(str) THEN <<>>
       ELSE IF breaks = {} THEN <<SubSeq(str, start, Len(str))>>
       ELSE LET p == Min(breaks)
                nxt == IF Char(str, p) = "\r" /\ Char(str, p + 1) = "\n"
                       THEN p + 2 ELSE p + 1
            IN <<SubSeq(str, start, p - 1)>> \o splitlines_from(str, nxt)

splitlines(str) == splitlines_from(str, 1)

\* int() of a string of digits
RECURSIVE int_of(_)
int_of(str) ==
    IF str = "" THEN 0
    ELSE 10 * int_of(SubSeq(str, 1, Len(str) - 1)) + DigitVal(Char(str, Len(str)))

\* str() of a natural number
RECURSIVE str_of(_)
str_of(n) ==
    IF n < 10 THEN Char(DIGITS, n + 1)
    ELSE str_of(n \div 10) \o Char(DIGITS, (n % 10) + 1)

AllDigits(str) == \A p \in 1..Len(str) : IsDigit(Char(str, p))

(***************************************************************************)
(* Locale numeric codec (main.py)                                          *)
(***************************************************************************)
\* a finite float of u units and c hundredths
Float(u, c) == [units |-> u, cents |-> c, special |-> ""]

\* the float 0.0
ZERO == Float(0, 0)

\* the floats inf and nan
INF == [units |-> 0, cents |-> 0, special |-> "inf"]

NAN == [units |-> 0, cents |-> 0, special |-> "nan"]

\* float(str) of a decimal literal: an unsigned literal with at most two
\* fractional digits; every other string of the model raises ValueError
float_of_decimal(str) ==
    LET dots == {p \in 1..Len(str) : Char(str, p) = "."}
    IN IF str = "" THEN Raise("ValueError", "could not convert string to float")
       ELSE IF dots = {}
       THEN IF AllDigits(str) THEN Ok(Float(int_of(str), 0))
            ELSE Raise("ValueError", "could not convert string to float")
       ELSE LET d == Min(dots)
                ip == SubSeq(str, 1, d - 1)
                fp == SubSeq(str, d + 1, Len(str))
            IN IF /\ Cardinality(dots) = 1
                  /\ AllDigits(ip) /\ AllDigits(fp)
                  /\ Len(ip) + Len(fp) > 0
                  /\ Len(fp) <= 2
               THEN Ok(Float(int_of(ip),
                              IF Len(fp) = 1 THEN 10 * int_of(fp) ELSE int_of(fp)))
               ELSE Raise("ValueError", "could not convert string to float")

\* float(str): the white space around the literal is dropped, and the names
\* "inf", "infinity" and "nan", in either case, are floats too
float_of(str) ==
    LET lit == lower(strip(str))
    IN IF lit \in {"inf", "infinity"} THEN Ok(INF)
       ELSE IF lit = "nan" THEN Ok(NAN)
       ELSE float_of_decimal(strip(str))

\* br_to_float: '12.345,67' -> 12345.67; empty, None or unparsable -> 0.0
br_to_float(str) ==
    IF str = None \/ str = "" THEN ZERO
    ELSE LET f == float_of(replace(replace(str, ".", ""), ",", "."))
         IN IF f.exc # "" THEN ZERO ELSE f.val

\* a + b on two amounts
float_add(a, b) ==
    IF "nan" \in {a.special, b.special} THEN NAN
    ELSE IF "inf" \in {a.special, b.special} THEN INF
    ELSE Float(a.units + b.units + ((a.cents + b.cents) \div 100),
               (a.cents + b.cents) % 100)

\* the integer part with ',' between groups of three digits
RECURSIVE group_thousands(_)
group_thousands(n) ==
    IF n < 1000 THEN str_of(n)
    ELSE LET r == n % 1000
         IN group_thousands(n \div 1000) \o ","
            \o (IF r < 10 THEN "00" ELSE IF r < 100 THEN "0" ELSE "") \o str_of(r)

\* f"{x:,.2f}"
format_comma_2f(v) ==
    IF v.special # "" THEN v.special
    ELSE group_thousands(v.units) \o "." \o (IF v.cents < 10 THEN "0" ELSE "") \o str_of(v.cents)

\* float_to_br with the two separators swapped without the placeholder
float_to_br_naive(v) == replace(replace(format_comma_2f(v), ".", ","), ",", ".")

\* float_to_br: 12345.67 -> '12.345,67'
float_to_br(v) ==
    replace(replace(replace(format_comma_2f(v), ",", "X"), ".", ","), "X", ".")

(***************************************************************************)
(* Patterns (main.py 50-53, tratamento.py 14-17)                           *)
(***************************************************************************)
\* HEADER_PATTERN tried at p: the position after the match, 0 when none
HEADER_PATTERN(str, p) ==
    IF LitAt(str, p, "5.") /\ LitAt(str, SkipWs(str, p + 2), "Comparativo dos Valores")
    THEN SkipWs(str, p + 2) + Len("Comparativo dos Valores")
    ELSE 0

\* the first alternative of NEXT_HEADER, \n\s*6\.\s*Observações, matches at p
\* (the strings of the model are ASCII: "ç" and "õ" are written "c" and "o"
\* in the pattern and in every text alike)
NEXT_HEADER(str, p) ==
    /\ Char(str, p) = "\n"
    /\ LitAt(str, SkipWs(str, p + 1), "6.")
    /\ LitAt(str, SkipWs(str, SkipWs(str, p + 1) + 2), "Observacoes")

\* length of the run of digits at p, counted up to cap
RECURSIVE digit_run(_, _, _)
digit_run(str, p, cap) ==
    IF cap = 0 \/ ~IsDigit(Char(str, p)) THEN 0 ELSE 1 + digit_run(str, p + 1, cap - 1)

\* (?:\.\d{3})* from p, greedy: the position after the last group
RECURSIVE thousands_groups(_, _)
thousands_groups(str, p) ==
    IF Char(str, p) = "." /\ digit_run(str, p + 1, 3) = 3
    THEN thousands_groups(str, p + 4) ELSE p

\* NUM_PATTERN tried at p: the position after the match, 0 when none
NUM_PATTERN(str, p) ==
    LET d == digit_run(str, p, 4)
        q == thousands_groups(str, p + d)
    IN IF d >= 1 /\ d <= 3 /\ Char(str, q) = "," /\ digit_run(str, q + 1, 2) = 2
       THEN q + 3 ELSE 0

\* re.match(DATE_PATTERN, str)
DATE_PATTERN(str) ==
    /\ str # None
    /\ digit_run(str, 1, 2) = 2 /\ Char(str, 3) = "/"
    /\ digit_run(str, 4, 2) = 2 /\ Char(str, 6) = "/"
    /\ digit_run(str, 7, 4) = 4

\* re.findall(NUM_PATTERN, str) from p: the matches, left to right, each
\* search resuming where the match before it ended
RECURSIVE findall_from(_, _)
findall_from(str, p) ==
    LET at == {q \in p..Len(str) : NUM_PATTERN(str, q) # 0}
    IN IF at = {} THEN <<>>
       ELSE <<SubSeq(str, Min(at), NUM_PATTERN(str, Min(at)) - 1)>>
            \o findall_from(str, NUM_PATTERN(str, Min(at)))

findall_NUM(str) == findall_from(str, 1)

\* re.search(NUM_PATTERN, str).start() as a 1-based position, 0 when no match
search_NUM(str) ==
    LET at == {p \in 1..Len(str) : NUM_PATTERN(str, p) # 0}
    IN IF at = {} THEN 0 ELSE Min(at)

(***************************************************************************)
(* Section locator and line normalizer                                     *)
(***************************************************************************)
\* re.search(HEADER_PATTERN + "(.*?)" + NEXT_HEADER, str, flags=re.S):
\* group(1) of the match. The alternation of NEXT_HEADER splits the whole
\* pattern in two, header-span-next header | \Z, so a text where the first
\* alternative matches nowhere is matched by \Z at its end, with no group 1.
re_search_section(str) ==
    LET nexts == {q \in 1..Len(str) : NEXT_HEADER(str, q)}
        heads == {p \in 1..Len(str) :
                     /\ HEADER_PATTERN(str, p) # 0
                     /\ \E q \in nexts : q >= HEADER_PATTERN(str, p)}
    IN IF heads = {} THEN None
       ELSE LET h == HEADER_PATTERN(str, Min(heads))
            IN SubSeq(str, h, Min({q \in nexts : q >= h}) - 1)

\* extract_section5_from_text / the search of extract_section_text:
\* (m.group(1) if m else "").strip(), where m is never None
extract_section5_from_text(full_text) ==
    IF re_search_section(full_text) = None
    THEN Raise("AttributeError", "'NoneType' object has no attribute 'strip'")
    ELSE Ok(strip(re_search_section(full_text)))

\* re.sub(r"\s+", " ", ln) from p: each run of whitespace becomes one space
RECURSIVE collapse_from(_, _)
collapse_from(str, p) ==
    LET ws == {q \in p..Len(str) : Char(str, q) \in WHITESPACE}
    IN IF p > Len(str) THEN ""
       ELSE IF ws = {} THEN SubSeq(str, p, Len(str))
       ELSE SubSeq(str, p, Min(ws) - 1) \o " " \o collapse_from(str, SkipWs(str, Min(ws)))

\* the list comprehension of normalize_lines over the lines lns
RECURSIVE normalize_each(_)
normalize_each(lns) ==
    IF lns = <<>> THEN <<>>
    ELSE IF strip(Head(lns)) = "" THEN normalize_each(Tail(lns))
    ELSE <<strip(collapse_from(Head(lns), 1))>> \o normalize_each(Tail(lns))

\* normalize_lines
normalize_lines(section_text) == normalize_each(splitlines(section_text))

(***************************************************************************)
(* Row classifier and table builder: parse_table of main.py                *)
(***************************************************************************)
Row(data, valores, principal, contratual, sucumbencia, total) ==
    [Data |-> data, Valores |-> valores, Principal |-> principal,
     Contratual |-> contratual, Sucumbencia |-> sucumbencia, Total |-> total]

\* the header test of both parse_table: a rendered table header
cabecalho(ln) ==
    \/ startswith(lower(ln), "data valores")
    \/ contains(ln, "(70%)")
    \/ contains(ln, "(30%)")

\* ln[len(date):].strip(), the line after its first word
resto(ln) == strip(SubSeq(ln, Len(first_word(ln)) + 1, Len(ln)))

\* the dated-entry branch with the tokens placed from the second slot on
linha_com_data_deslocada(ln) ==
    LET nums == findall_NUM(resto(ln))
    IN Row(first_word(ln), resto(ln),
           "0,00",
           IF Len(nums) >= 1 THEN nums[1] ELSE "0,00",
           IF Len(nums) >= 2 THEN nums[2] ELSE "0,00",
           IF Len(nums) >= 3 THEN nums[3] ELSE "0,00")

\* the dated-entry branch of main.py: the row of a line that starts with a date
linha_com_data(ln) ==
    LET rest == resto(ln)
        nums == findall_NUM(rest)
        desc == IF search_NUM(rest) # 0
                THEN strip(SubSeq(rest, 1, search_NUM(rest) - 1))
                ELSE strip(rest)
    IN Row(first_word(ln), desc,
           IF Len(nums) >= 1 THEN nums[1] ELSE "0,00",
           IF Len(nums) >= 2 THEN nums[2] ELSE "0,00",
           IF Len(nums) >= 3 THEN nums[3] ELSE "0,00",
           IF Len(nums) >= 4 THEN nums[4] ELSE "0,00")

\* the inner while of the pending block: the first j that ends the block
RECURSIVE fim_do_bloco(_, _)
fim_do_bloco(ls, j) ==
    IF j < Len(ls) /\ ~(DATE_PATTERN(ls[j + 1]) \/ startswith(ls[j + 1], "Aguardando"))
    THEN fim_do_bloco(ls, j + 1)
    ELSE j

\* desc after the inner while: lines de..ate-1 (0-based) joined by " "
RECURSIVE desc_do_bloco(_, _, _)
desc_do_bloco(ls, de, ate) ==
    IF ate - de = 1 THEN ls[de + 1]
    ELSE desc_do_bloco(ls, de, ate - 1) \o " " \o ls[ate]

\* the pending block that stops after its first line
bloco_aguardando_curto(ls, i0, vazio) ==
    [i |-> i0 + 1,
     rows |-> <<Row("Aguardando", replace_1(ls[i0 + 1], "Aguardando ", ""),
                    vazio, vazio, vazio, vazio)>>,
     regra |-> "aguardando"]

\* the pending-block branch of both parse_table; vazio is the empty money slot
bloco_aguardando(ls, i0, vazio) ==
    LET j == fim_do_bloco(ls, i0 + 1)
    IN [i |-> j,
        rows |-> <<Row("Aguardando",
                       replace_1(desc_do_bloco(ls, i0, j), "Aguardando ", ""),
                       vazio, vazio, vazio, vazio)>>,
        regra |-> "aguardando"]

\* the if chain with the pending-block test ahead of the header test
regra_de_aguardando_primeiro(ln) ==
    IF startswith(ln, "Aguardando") THEN "aguardando"
    ELSE IF cabecalho(ln) THEN "cabecalho"
    ELSE IF DATE_PATTERN(ln) THEN "data"
    ELSE "fallback"

\* the if chain of the while of both parse_table: the branch taken for ln
regra_de(ln) ==
    IF cabecalho(ln) THEN "cabecalho"
    ELSE IF DATE_PATTERN(ln) THEN "data"
    ELSE IF startswith(ln, "Aguardando") THEN "aguardando"
    ELSE "fallback"

\* one iteration of the while of parse_table (main.py) with the cursor at i0
parse_table_step(ls, i0) ==
    LET ln == ls[i0 + 1]
        r == regra_de(ln)
    IN IF r = "cabecalho"
       THEN [i |-> i0 + 1, rows |-> <<>>, regra |-> "cabecalho"]
       ELSE IF r = "data"
       THEN [i |-> i0 + 1, rows |-> <<linha_com_data(ln)>>, regra |-> "data"]
       ELSE IF r = "aguardando"
       THEN bloco_aguardando(ls, i0, "0,00")
       ELSE [i |-> i0 + 1,
             rows |-> <<Row(None, ln, "0,00", "0,00", "0,00", "0,00")>>,
             regra |-> "fallback"]

(***************************************************************************)
(* parse_table of tratamento.py                                            *)
(***************************************************************************)
\* re.split(NUM_PATTERN, str) from b: the text before each match, the match
\* (the pattern has one group), and the text after the last match
RECURSIVE split_from(_, _)
split_from(str, b) ==
    LET at == {q \in b..Len(str) : NUM_PATTERN(str, q) # 0}
    IN IF at = {} THEN <<SubSeq(str, b, Len(str))>>
       ELSE <<SubSeq(str, b, Min(at) - 1), SubSeq(str, Min(at), NUM_PATTERN(str, Min(at)) - 1)>>
            \o split_from(str, NUM_PATTERN(str, Min(at)))

split_NUM(str) == split_from(str, 1)

\* re.fullmatch(NUM_PATTERN, str)
fullmatch_NUM(str) == str # None /\ str # "" /\ NUM_PATTERN(str, 1) = Len(str) + 1

\* [p for p in parts if re.fullmatch(NUM_PATTERN, p)]
RECURSIVE only_nums(_)
only_nums(parts) ==
    IF parts = <<>> THEN <<>>
    ELSE IF fullmatch_NUM(Head(parts)) THEN <<Head(parts)>> \o only_nums(Tail(parts))
    ELSE only_nums(Tail(parts))

\* the dated-entry branch of tratamento.py
linha_com_data_tratamento(ln) ==
    LET parts == split_NUM(resto(ln))
        nums == only_nums(parts)
    IN Row(first_word(ln), strip(parts[1]),
           IF Len(nums) > 0 THEN nums[1] ELSE None,
           IF Len(nums) > 1 THEN nums[2] ELSE None,
           IF Len(nums) > 2 THEN nums[3] ELSE None,
           IF Len(nums) > 3 THEN nums[4] ELSE None)

\* one iteration of the while of parse_table (tratamento.py)
parse_table_step_tratamento(ls, i0) ==
    LET ln == ls[i0 + 1]
        r == regra_de(ln)
    IN IF r = "cabecalho"
       THEN [i |-> i0 + 1, rows |-> <<>>, regra |-> "cabecalho"]
       ELSE IF r = "data"
       THEN [i |-> i0 + 1, rows |-> <<linha_com_data_tratamento(ln)>>, regra |-> "data"]
       ELSE IF r = "aguardando"
       THEN bloco_aguardando(ls, i0, None)
       ELSE [i |-> i0 + 1,
             rows |-> <<Row(None, ln, None, None, None, None)>>,
             regra |-> "fallback"]

\* the iteration of the script named by im
step_of(im, ls, i0) ==
    IF im = "main" THEN parse_table_step(ls, i0) ELSE parse_table_step_tratamento(ls, i0)

(***************************************************************************)
(* Most-recent selector                                                    *)
(***************************************************************************)
leap_year(y) == (y % 4 = 0 /\ y % 100 # 0) \/ y % 400 = 0

days_in_month(m, y) ==
    IF m = 2 THEN (IF leap_year(y) THEN 29 ELSE 28)
    ELSE IF m \in {4, 6, 9, 11} THEN 30 ELSE 31

\* pd.to_datetime(str, format="%d/%m/%Y", errors="coerce") of one value, as an
\* ordinal that orders like the calendar; NaT when the value is not a date.
\* The years of the model lie inside the range of a pandas Timestamp.
to_datetime(str) ==
    IF str = None \/ Len(str) # 10 \/ ~DATE_PATTERN(str) THEN NaT
    ELSE LET d == int_of(SubSeq(str, 1, 2))
             m == int_of(SubSeq(str, 4, 5))
             y == int_of(SubSeq(str, 7, 10))
         IN IF y >= 1 /\ m >= 1 /\ m <= 12 /\ d >= 1 /\ d <= days_in_month(m, y)
            THEN y * 10000 + m * 100 + d
            ELSE NaT

\* idxmax that keeps the last label holding the maximum
idxmax_ultimo(df, ks) ==
    CHOOSE k \in ks :
        \A n \in ks : \/ to_datetime(df[k].Data) > to_datetime(df[n].Data)
                      \/ to_datetime(df[k].Data) = to_datetime(df[n].Data) /\ k >= n

\* Series.idxmax() over the labels ks, NaT skipped: the first label that
\* holds the maximum
idxmax(df, ks) ==
    CHOOSE k \in ks :
        \A n \in ks : \/ to_datetime(df[k].Data) > to_datetime(df[n].Data)
                      \/ to_datetime(df[k].Data) = to_datetime(df[n].Data) /\ k <= n

\* filter_most_recent of main.py. With every candidate NaT, idxmax has no
\* label to give (NaN up to pandas 2, ValueError from pandas 3) and the
\* df.loc lookup of NaN raises KeyError: the call raises either way.
filter_most_recent(df) ==
    LET valid == {k \in 1..Len(df) : DATE_PATTERN(df[k].Data)}
        notna == {k \in valid : to_datetime(df[k].Data) # NaT}
    IN IF valid = {} THEN Ok(<<>>)
       ELSE IF notna = {} THEN Raise("KeyError", "[nan] not in index")
       ELSE Ok(<<df[idxmax(df, notna)]>>)

\* filter_most_recent of tratamento.py
filter_most_recent_tratamento(df) ==
    LET notna == {k \in 1..Len(df) : to_datetime(df[k].Data) # NaT}
    IN IF notna # {} THEN Ok(<<df[idxmax(df, notna)]>>) ELSE Ok(<<>>)

(***************************************************************************)
(* Aggregator: processar_secao5_comparativo (main.py), main (tratamento.py) *)
(***************************************************************************)
\* Python's `v or "0,00"`
or_zero(v) == IF v = None \/ v = "" THEN "0,00" ELSE v

Valores3(c, su, tot) == [contratual |-> c, sucumbencia |-> su, total |-> tot]

\* the return of processar_secao5_comparativo with the Total column passed on
retorno_sem_soma(df_latest) ==
    IF df_latest # <<>>
    THEN Valores3(or_zero(df_latest[1].Contratual), or_zero(df_latest[1].Sucumbencia),
                  df_latest[1].Total)
    ELSE Valores3("0,00", "0,00", "0,00")

\* main.py 159-169: what processar_secao5_comparativo returns for df_latest
retorno(df_latest) ==
    IF df_latest # <<>>
    THEN Valores3(or_zero(df_latest[1].Contratual), or_zero(df_latest[1].Sucumbencia),
                  float_to_br(float_add(br_to_float(or_zero(df_latest[1].Contratual)),
                                        br_to_float(or_zero(df_latest[1].Sucumbencia)))))
    ELSE Valores3("0,00", "0,00", "0,00")

\* br_money_to_float of tratamento.py followed by .fillna(0)
br_money_to_float(v) ==
    IF v = None \/ strip(v) = "" THEN ZERO
    ELSE LET f == float_of(replace(replace(strip(v), ".", ""), ",", "."))
         IN IF f.exc # "" THEN ZERO ELSE f.val

\* the lambda of tratamento.py 123 and 139
formata_total(v) ==
    replace(replace(replace(format_comma_2f(v), ",", "X"), ".", ","), "X", ".")

fillna_value(v) == IF v = None THEN "0,00" ELSE v

\* df.fillna("0,00"), every column of one row
fillna_row(r) ==
    Row(fillna_value(r.Data), fillna_value(r.Valores), fillna_value(r.Principal),
        fillna_value(r.Contratual), fillna_value(r.Sucumbencia), fillna_value(r.Total))

\* tratamento.py 115-125 and 132-139 on one row: fillna, then Total recomputed
soma_row(r) ==
    [fillna_row(r) EXCEPT !.Total =
        formata_total(float_add(br_money_to_float(fillna_row(r).Contratual),
                                br_money_to_float(fillna_row(r).Sucumbencia)))]

\* the same steps over a DataFrame
soma_tabela(df) == [k \in 1..Len(df) |-> soma_row(df[k])]

\* df[["Contratual (30%)", "Sucumbência", "Total"]]
tres_colunas(df) ==
    [k \in 1..Len(df) |-> Valores3(df[k].Contratual, df[k].Sucumbencia, df[k].Total)]

(***************************************************************************)
(* The inputs of the model                                                 *)
(***************************************************************************)
\* longest section body, in lines
MaxLinhas == 3

\* longest batch, in documents
MaxLote == 3

\* most thousands groups of a money string handed to the codec
MaxGrupos == 1

\* a text with the section header, the body and the next section's header
ComSecao(corpo) == "Rel\n5. Comparativo dos Valores\n" \o corpo \o "\n6. Observacoes\nFim"

\* a text with the section header and no section after it
SemProxima(corpo) == "5.  Comparativo dos Valores\n" \o corpo

\* a text without the section header
SemCabecalho(corpo) == "Rel\n" \o corpo \o "\n 6. Observacoes\n"

\* raw lines of a section body, as the PDF text carries them
LINHAS ==
    {"DATA Valores (R$) Total",
     "Aguardando (30%)",
     "20/02/2024 Pagamento 1.000,00 300,00 700,00 2.000,00",
     "15/03/2024 Saldo 1,00 2,00 3,00 9,00 5,00",
     " 15/03/2024  RPV\t500,00 ",
     "31/02/2024 Estorno",
     "Aguardando liberacao",
     "do valor  judicial"}

\* the sequences of exactly n elements of S
RECURSIVE SeqsOf(_, _)
SeqsOf(S, n) ==
    IF n = 0 THEN {<<>>} ELSE {Append(q, e) : q \in SeqsOf(S, n - 1), e \in S}

\* the sequences of at most n elements of S
SeqsUpTo(S, n) == UNION {SeqsOf(S, m) : m \in 0..n}

\* "\n".join(ls)
RECURSIVE join_lines(_)
join_lines(ls) ==
    IF ls = <<>> THEN ""
    ELSE IF Len(ls) = 1 THEN ls[1]
    ELSE ls[1] \o "\n" \o join_lines(Tail(ls))

CORPOS == {join_lines(ls) : ls \in SeqsUpTo(LINHAS, MaxLinhas)}

\* bodies of at most one line, and a blank one
CORPOS_CURTOS == {join_lines(ls) : ls \in SeqsUpTo(LINHAS, 1)} \cup {" \n\t"}

TEXTOS ==
    {ComSecao(c) : c \in CORPOS \cup CORPOS_CURTOS}
    \cup {SemProxima(c) : c \in CORPOS_CURTOS}
    \cup {SemCabecalho(c) : c \in CORPOS_CURTOS}

\* digits of the money strings handed to the codec
ALGARISMOS == {"0", "7"}

\* the strings of exactly n characters of ALGARISMOS
RECURSIVE Algs(_)
Algs(n) == IF n = 0 THEN {""} ELSE {a \o d : a \in Algs(n - 1), d \in ALGARISMOS}

\* the strings of exactly n thousands groups
RECURSIVE Grupos(_)
Grupos(n) == IF n = 0 THEN {""} ELSE {g \o "." \o a : g \in Grupos(n - 1), a \in Algs(3)}

\* strings that match NUM_PATTERN whole, and a few that do not
ENTRADAS ==
    {a \o g \o "," \o c :
        a \in Algs(1) \cup Algs(2) \cup Algs(3),
        g \in UNION {Grupos(n) : n \in 0..MaxGrupos},
        c \in Algs(2)}
    \cup {"", None, "abc", "7,5", "1.5", "7,0,0", " 7,00\n", "inf", "Infinity", "nan"}

\* what pdfplumber and the field extractors of extrair_dados_pdf (steps 1-4)
\* give for a path: an exception while the PDF is read, or the text and the
\* three fields found in it
Pdf(falha, e, m, txt, nome, processo, encerramento) ==
    [falha |-> falha, exc |-> e, msg |-> m, texto |-> txt,
     Nome |-> nome, Processo |-> processo, Encerramento |-> encerramento]

\* the paths of the documents on disk
CAMINHOS == {"a/rpv1.pdf", "b/rpv1.pdf", "rpv2.pdf", "rpv3.pdf", "rpv4.pdf", "rpv5.pdf"}

\* the documents on disk
ARQUIVOS(caminho) ==
    CASE caminho = "a/rpv1.pdf" ->
           Pdf(FALSE, "", "",
               ComSecao("Data Valores (R$)\n01/02/2024 Pagamento 1.000,00 300,00 700,00 2.000,00\nSaldo\nAguardando pagamento"),
               "Maria", "0001234-56.2020.8.26.0100", "10/02/2024")
      [] caminho = "b/rpv1.pdf" ->
           Pdf(FALSE, "", "", SemCabecalho("01/02/2024 Pagamento 1,00 2,00"),
               "", "0007654-32.2021.8.26.0100", "")
      [] caminho = "rpv2.pdf" ->
           Pdf(TRUE, "PDFSyntaxError", "No /Root object! - Is this really a PDF?", "", "", "", "")
      [] caminho = "rpv3.pdf" ->
           Pdf(TRUE, "MemoryError", "", "", "", "", "")
      [] caminho = "rpv4.pdf" ->
           Pdf(FALSE, "", "", ComSecao("31/02/2024 Estorno 5,00 6,00"), "Jose", "", "")
      [] OTHER ->
           Pdf(FALSE, "", "", ComSecao("Aguardando liberacao\ndo valor judicial"),
               "Ana", "", "05/01/2024")

(***************************************************************************)
(* The engine on one document: processar_secao5_comparativo of main.py and *)
(* main of tratamento.py, one call per step                                *)
(***************************************************************************)
LoteParado == lista_caminhos = <<>> /\ feitos = 0 /\ dados = None /\ resultados = <<>>

CodecParado == s = "" /\ x = ZERO /\ t = ""

EngineParado ==
    /\ section = None /\ lines = <<>> /\ i = 0 /\ rows = <<>>
    /\ anterior = 0 /\ regra = "" /\ latest = <<>> /\ saida = Ok(None)

Init ==
    /\ pc = "inicio"
    /\ impl \in {"main", "tratamento"}
    /\ texto \in TEXTOS
    /\ EngineParado
    /\ LoteParado
    /\ CodecParado

\* extract_section5_from_text / extract_section_text, and the test of an
\* empty section that follows the call
ExtrairSecao ==
    /\ pc = "inicio"
    /\ LET r == extract_section5_from_text(texto)
       IN IF r.exc # ""
          THEN /\ pc' = "erro" /\ saida' = r /\ section' = section
          ELSE IF r.val = ""
          THEN /\ section' = r.val
               /\ IF impl = "main"
                  THEN pc' = "fim" /\ saida' = Ok(Valores3("0,00", "0,00", "0,00"))
                  ELSE /\ pc' = "erro"
                       /\ saida' = Raise("RuntimeError",
                                         "Secao '5. Comparativo dos Valores' nao encontrada no PDF.")
          ELSE /\ section' = r.val /\ pc' = "normalizar" /\ saida' = saida
    /\ UNCHANGED <<impl, texto, lines, i, rows, anterior, regra, latest,
                   lista_caminhos, feitos, dados, resultados, s, x, t>>

\* normalize_lines, and the first lines of parse_table
NormalizarLinhas ==
    /\ pc = "normalizar"
    /\ lines' = normalize_lines(section)
    /\ i' = 0 /\ rows' = <<>> /\ anterior' = 0 /\ regra' = ""
    /\ pc' = "parse"
    /\ UNCHANGED <<impl, texto, section, latest, saida,
                   lista_caminhos, feitos, dados, resultados, s, x, t>>

\* the while of parse_table is at a line that takes branch r
NaLinha(r) == pc = "parse" /\ i < Len(lines) /\ regra_de(lines[i + 1]) = r

\* one iteration of the while of parse_table
Iteracao ==
    LET st == step_of(impl, lines, i)
    IN /\ i' = st.i
       /\ rows' = rows \o st.rows
       /\ anterior' = i
       /\ regra' = st.regra
       /\ UNCHANGED <<pc, impl, texto, section, lines, latest, saida,
                      lista_caminhos, feitos, dados, resultados, s, x, t>>

PulaCabecalho == NaLinha("cabecalho") /\ Iteracao

LinhaComData == NaLinha("data") /\ Iteracao

BlocoAguardando == NaLinha("aguardando") /\ Iteracao

Fallback == NaLinha("fallback") /\ Iteracao

\* the end of the while: pd.DataFrame(rows, columns=...) is returned
MontarTabela ==
    /\ pc = "parse"
    /\ i >= Len(lines)
    /\ pc' = IF impl = "main" THEN "filtrar" ELSE "etapas"
    /\ regra' = ""
    /\ UNCHANGED <<impl, texto, section, lines, i, rows, anterior, latest, saida,
                   lista_caminhos, feitos, dados, resultados, s, x, t>>

\* tratamento.py 115-128: fillna, Total recomputed, df_final taken
SomarTabela ==
    /\ pc = "etapas"
    /\ rows' = soma_tabela(rows)
    /\ saida' = Ok([df_final |-> tres_colunas(soma_tabela(rows)), df_latest |-> <<>>])
    /\ pc' = "filtrar"
    /\ UNCHANGED <<impl, texto, section, lines, i, anterior, regra, latest,
                   lista_caminhos, feitos, dados, resultados, s, x, t>>

\* filter_most_recent
FiltrarMaisRecente ==
    /\ pc = "filtrar"
    /\ LET r == IF impl = "main" THEN filter_most_recent(rows)
                ELSE filter_most_recent_tratamento(rows)
       IN IF r.exc # ""
          THEN pc' = "erro" /\ saida' = r /\ latest' = latest
          ELSE pc' = "agregar" /\ saida' = saida /\ latest' = r.val
    /\ UNCHANGED <<impl, texto, section, lines, i, rows, anterior, regra,
                   lista_caminhos, feitos, dados, resultados, s, x, t>>

\* main.py 159-169, tratamento.py 132-141: the values of the latest record
Agregar ==
    /\ pc = "agregar"
    /\ saida' = IF impl = "main" THEN Ok(retorno(latest))
                ELSE Ok([df_final |-> saida.val.df_final,
                         df_latest |-> tres_colunas(soma_tabela(latest))])
    /\ pc' = "fim"
    /\ UNCHANGED <<impl, texto, section, lines, i, rows, anterior, regra, latest,
                   lista_caminhos, feitos, dados, resultados, s, x, t>>

Next ==
    \/ ExtrairSecao
    \/ NormalizarLinhas
    \/ PulaCabecalho
    \/ LinhaComData
    \/ BlocoAguardando
    \/ Fallback
    \/ MontarTabela
    \/ SomarTabela
    \/ FiltrarMaisRecente
    \/ Agregar

Spec == Init /\ [][Next]_vars

(***************************************************************************)
(* Batch extraction: extrair_em_lote and extrair_dados_pdf (main.py)       *)
(***************************************************************************)
\* Path(p).name
path_name(caminho) ==
    LET bar == {q \in 1..Len(caminho) : Char(caminho, q) = "/"}
    IN IF bar = {} THEN caminho
       ELSE SubSeq(caminho, (CHOOSE q \in bar : \A r \in bar : r <= q) + 1, Len(caminho))

Dados(arquivo, nome, processo, encerramento, c, su, tot) ==
    [Arquivo |-> arquivo, Nome |-> nome, Processo |-> processo,
     Encerramento |-> encerramento, CONTRATUAL |-> c, Sucumbencia |-> su, Total |-> tot]

Registro(arquivo, nome, processo, encerramento, tot, c, su, erro) ==
    [Arquivo |-> arquivo, Nome |-> nome, Processo |-> processo,
     Encerramento |-> encerramento, Total |-> tot, CONTRATUAL |-> c,
     Sucumbencia |-> su, Erro |-> erro]

\* main.py 258-267: the record of a document that was read
registro_ok(d) ==
    Registro(d.Arquivo, d.Nome, d.Processo, d.Encerramento, d.Total, d.CONTRATUAL,
             d.Sucumbencia, "")

\* main.py 270-279: the record of a document whose extraction raised r
registro_erro(p, r) == Registro(path_name(p), "", "", "", "", "", "", r.msg)

\* the except branch that drops the failed document
anexa_erro_descarta(res, p, r) == res

\* the except branch of extrair_em_lote: resultados.append({... "Erro": str(e)})
anexa_erro(res, p, r) == Append(res, registro_erro(p, r))

InitLote ==
    /\ pc = "lote"
    /\ impl = "main"
    /\ texto = ""
    /\ lista_caminhos \in SeqsUpTo(CAMINHOS, MaxLote)
    /\ feitos = 0
    /\ dados = None
    /\ resultados = <<>>
    /\ EngineParado
    /\ CodecParado

\* the path the for loop of extrair_em_lote is at
atual == lista_caminhos[feitos + 1]

\* extrair_dados_pdf 176-239: the dict with its defaults, the PDF opened and
\* read, the three fields searched in its text
AbrirPdf ==
    /\ pc = "lote"
    /\ feitos < Len(lista_caminhos)
    /\ LET pdf == ARQUIVOS(atual)
       IN IF pdf.falha
          THEN /\ pc' = "erro" /\ saida' = Raise(pdf.exc, pdf.msg)
               /\ dados' = Dados(path_name(atual), "", "", "", "", "", "")
               /\ texto' = ""
          ELSE /\ pc' = "inicio" /\ saida' = Ok(None)
               /\ dados' = Dados(path_name(atual), pdf.Nome, pdf.Processo,
                                 pdf.Encerramento, "", "", "")
               /\ texto' = pdf.texto
    /\ section' = None /\ lines' = <<>> /\ i' = 0 /\ rows' = <<>>
    /\ anterior' = 0 /\ regra' = "" /\ latest' = <<>>
    /\ UNCHANGED <<impl, lista_caminhos, feitos, resultados, s, x, t>>

\* extrair_dados_pdf 242-247 and the try block of extrair_em_lote 258-268
RegistrarSucesso ==
    /\ pc = "fim"
    /\ feitos < Len(lista_caminhos)
    /\ dados' = [dados EXCEPT !.CONTRATUAL = saida.val.contratual,
                              !.Sucumbencia = saida.val.sucumbencia,
                              !.Total = saida.val.total]
    /\ resultados' = Append(resultados, registro_ok(dados'))
    /\ feitos' = feitos + 1
    /\ pc' = "lote"
    /\ UNCHANGED <<impl, texto, section, lines, i, rows, anterior, regra, latest,
                   saida, lista_caminhos, s, x, t>>

\* the except block of extrair_em_lote
RegistrarErro ==
    /\ pc = "erro"
    /\ feitos < Len(lista_caminhos)
    /\ resultados' = anexa_erro(resultados, atual, saida)
    /\ feitos' = feitos + 1
    /\ pc' = "lote"
    /\ UNCHANGED <<impl, texto, section, lines, i, rows, anterior, regra, latest,
                   saida, lista_caminhos, dados, s, x, t>>

\* return resultados
RetornarResultados ==
    /\ pc = "lote"
    /\ feitos >= Len(lista_caminhos)
    /\ pc' = "retornou"
    /\ UNCHANGED <<impl, texto, section, lines, i, rows, anterior, regra, latest,
                   saida, lista_caminhos, feitos, dados, resultados, s, x, t>>

NextLote ==
    \/ AbrirPdf
    \/ ExtrairSecao
    \/ NormalizarLinhas
    \/ PulaCabecalho
    \/ LinhaComData
    \/ BlocoAguardando
    \/ Fallback
    \/ MontarTabela
    \/ FiltrarMaisRecente
    \/ Agregar
    \/ RegistrarSucesso
    \/ RegistrarErro
    \/ RetornarResultados

SpecLote == InitLote /\ [][NextLote]_vars

(***************************************************************************)
(* The codec on one string                                                 *)
(***************************************************************************)
InitCodec ==
    /\ pc = "codec"
    /\ impl = "main"
    /\ texto = ""
    /\ s \in ENTRADAS
    /\ x = ZERO /\ t = ""
    /\ EngineParado
    /\ LoteParado

\* x = br_to_float(s)
Converter ==
    /\ pc = "codec"
    /\ x' = br_to_float(s)
    /\ pc' = "convertido"
    /\ UNCHANGED <<impl, texto, section, lines, i, rows, anterior, regra, latest,
                   saida, lista_caminhos, feitos, dados, resultados, s, t>>

\* t = float_to_br(x)
Formatar ==
    /\ pc = "convertido"
    /\ t' = float_to_br(x)
    /\ pc' = "formatado"
    /\ UNCHANGED <<impl, texto, section, lines, i, rows, anterior, regra, latest,
                   saida, lista_caminhos, feitos, dados, resultados, s, x>>

NextCodec == Converter \/ Formatar

SpecCodec == InitCodec /\ [][NextCodec]_vars

(***************************************************************************)
(* parse_table on its own, called with a list of normalized lines          *)
(***************************************************************************)
\* the lines normalize_lines makes of the raw lines of the model
LINHAS_NORMALIZADAS == {normalize_lines(ln)[1] : ln \in LINHAS}

InitParseTable ==
    /\ pc = "parse"
    /\ impl \in {"main", "tratamento"}
    /\ texto = ""
    /\ section = None
    /\ lines \in SeqsUpTo(LINHAS_NORMALIZADAS, MaxLinhas)
    /\ i = 0 /\ rows = <<>> /\ anterior = 0 /\ regra = ""
    /\ latest = <<>> /\ saida = Ok(None)
    /\ LoteParado
    /\ CodecParado

NextParseTable ==
    \/ PulaCabecalho
    \/ LinhaComData
    \/ BlocoAguardando
    \/ Fallback
    \/ MontarTabela

\* the cursor of the while of parse_table moves on: every branch of the
\* loop body ends with i += 1 or i = j, where j > i
AvancaCursor ==
    /\ pc = "parse"
    /\ i < Len(lines)
    /\ pc' = "parse"
    /\ i' \in (i + 1)..Len(lines)

\* parse_table is sequential code whose iterations are finite computations
\* on strings: while the cursor is before the end an iteration runs and
\* moves the cursor, and once the test of the while fails the table is built
SpecParseTable ==
    /\ InitParseTable
    /\ [][NextParseTable]_vars
    /\ WF_<<pc, i>>(AvancaCursor)
    /\ WF_vars(MontarTabela)

(***************************************************************************)
(* Properties of the batch (SpecLote)                                      *)
(***************************************************************************)
\* C1: extrair_em_lote returns one result per input path, in the order of the
\* input, whether or not documents fail: while the loop runs there is one
\* result for each path gone through, the j-th result carries the file name
\* of the j-th path and no field of another document, and at the return the
\* list is as long as the input.
C1_UmPorCaminhoNaOrdem ==
    /\ Len(resultados) = feitos
    /\ \A j \in 1..Len(resultados) :
          LET caminho == lista_caminhos[j]
              r == resultados[j]
          IN /\ r.Arquivo = path_name(caminho)
             /\ <<r.Nome, r.Processo, r.Encerramento>> \in
                   {<<"", "", "">>,
                    <<ARQUIVOS(caminho).Nome, ARQUIVOS(caminho).Processo,
                      ARQUIVOS(caminho).Encerramento>>}
    /\ pc = "retornou" => Len(resultados) = Len(lista_caminhos)

\* a batch returned with a failed document between two that were read
C1_Testemunha ==
    /\ pc = "retornou"
    /\ Len(resultados) = 3
    /\ resultados[1].Erro = "" /\ resultados[1].Nome # ""
    /\ resultados[2].Erro # ""
    /\ resultados[3].Erro = "" /\ resultados[3].Nome # ""

\* C2: when the processing of a document raises, the batch goes on: the
\* result appended for that document carries a non-empty error field and the
\* default value in every other data field, and the results of the documents
\* before it are left as they were.
C2_FalhaComErroNaoVazio ==
    [][(pc = "erro" /\ feitos' = feitos + 1) =>
          /\ Len(resultados') = Len(resultados) + 1
          /\ SubSeq(resultados', 1, Len(resultados)) = resultados
          /\ LET r == resultados'[Len(resultados')]
             IN /\ r.Erro # ""
                /\ r.Arquivo = path_name(lista_caminhos[feitos + 1])
                /\ <<r.Nome, r.Processo, r.Encerramento, r.Total, r.CONTRATUAL,
                     r.Sucumbencia>> = <<"", "", "", "", "", "">>]_vars

\* a document whose extraction raised an exception without a message has a
\* result with an empty error field
C2_FalhaSemMensagem ==
    /\ feitos >= 1
    /\ ARQUIVOS(lista_caminhos[feitos]).falha
    /\ resultados[feitos].Erro = ""

(***************************************************************************)
(* Properties of the table builder (Spec)                                  *)
(***************************************************************************)
\* C3 as the specification states it: the row of a dated line holds the
\* money tokens of the line, in the order found, in Principal, Contratual,
\* Sucumbencia and Total, "0,00" in every slot beyond the tokens found, and
\* nothing of a token after the fourth.
C3_SlotsComZeros ==
    (pc = "parse" /\ regra = "data") =>
        LET nums == findall_NUM(resto(lines[anterior + 1]))
            r == rows[Len(rows)]
            slot(n) == IF Len(nums) >= n THEN nums[n] ELSE "0,00"
        IN <<r.Principal, r.Contratual, r.Sucumbencia, r.Total>> =
               <<slot(1), slot(2), slot(3), slot(4)>>

\* C3, amended: the tokens go in the order found to the four slots and the
\* tokens after the fourth are ignored; a slot beyond the tokens found holds
\* "0,00" in main.py and is empty (None) in the parse_table of tratamento.py,
\* whose main() fills it with "0,00" before any row is summed or surfaced.
C3_SlotsNaOrdem ==
    /\ (pc = "parse" /\ regra = "data") =>
          LET nums == findall_NUM(resto(lines[anterior + 1]))
              r == rows[Len(rows)]
              vazio == IF impl = "main" THEN "0,00" ELSE None
              slot(n) == IF Len(nums) >= n THEN nums[n] ELSE vazio
          IN /\ DOMAIN r = {"Data", "Valores", "Principal", "Contratual",
                            "Sucumbencia", "Total"}
             /\ <<r.Principal, r.Contratual, r.Sucumbencia, r.Total>> =
                   <<slot(1), slot(2), slot(3), slot(4)>>
    /\ (impl = "tratamento" /\ pc \in {"filtrar", "agregar", "fim"}) =>
          \A j \in 1..Len(rows) :
             \A v \in {rows[j].Principal, rows[j].Contratual, rows[j].Sucumbencia,
                       rows[j].Total} : fullmatch_NUM(v)

\* a dated line of tratamento.py with fewer than four tokens has just been read
C3_Testemunha ==
    /\ pc = "parse" /\ regra = "data" /\ impl = "tratamento"
    /\ Len(findall_NUM(resto(lines[anterior + 1]))) \in 1..3
    /\ rows[Len(rows)].Total = None

\* C4 as the specification states it: with the cursor at a line that begins
\* with "Aguardando", one iteration of parse_table appends exactly one row
\* with date "Aguardando", the lines up to the next dated line or pending
\* line (or the end) joined by single spaces without the first "Aguardando "
\* as description, and "0,00" in the four money slots, and leaves the cursor
\* at the first line that was not consumed.
C4_BlocoComZeros ==
    [][(pc = "parse" /\ i < Len(lines) /\ startswith(lines[i + 1], "Aguardando")) =>
          LET para(j) == j = Len(lines) \/ DATE_PATTERN(lines[j + 1])
                         \/ startswith(lines[j + 1], "Aguardando")
              fim == CHOOSE j \in (i + 1)..Len(lines) :
                        para(j) /\ \A m \in (i + 1)..(j - 1) : ~para(m)
          IN /\ i' = fim
             /\ rows' = Append(rows,
                   Row("Aguardando",
                       replace_1(desc_do_bloco(lines, i, fim), "Aguardando ", ""),
                       "0,00", "0,00", "0,00", "0,00"))]_vars

\* C4, amended: the same for a line that begins with "Aguardando" and is not
\* a table header (holds neither "(70%)" nor "(30%)"; such a line is skipped
\* and gives no row), with the four money slots at "0,00" in main.py and
\* empty (None) in the parse_table of tratamento.py.
C4_BlocoNaoCabecalho ==
    [][(/\ pc = "parse" /\ i < Len(lines)
        /\ startswith(lines[i + 1], "Aguardando")
        /\ ~contains(lines[i + 1], "(70%)")
        /\ ~contains(lines[i + 1], "(30%)")) =>
          LET para(j) == j = Len(lines) \/ DATE_PATTERN(lines[j + 1])
                         \/ startswith(lines[j + 1], "Aguardando")
              fim == CHOOSE j \in (i + 1)..Len(lines) :
                        para(j) /\ \A m \in (i + 1)..(j - 1) : ~para(m)
              vazio == IF impl = "main" THEN "0,00" ELSE None
          IN /\ i' = fim
             /\ rows' = Append(rows,
                   Row("Aguardando",
                       replace_1(desc_do_bloco(lines, i, fim), "Aguardando ", ""),
                       vazio, vazio, vazio, vazio))]_vars

\* a pending block of two lines has been read, stopped by a line after it
C4_Testemunha ==
    /\ pc = "parse" /\ regra = "aguardando"
    /\ i = anterior + 2 /\ i < Len(lines)
    /\ rows[Len(rows)].Data = "Aguardando"
    /\ rows[Len(rows)].Valores = "liberacao do valor judicial"

(***************************************************************************)
(* Properties of the selector and of the aggregator (Spec)                 *)
(***************************************************************************)
\* C5: when some row of the table has a real dd/mm/yyyy date,
\* filter_most_recent returns one row, the first in source order among the
\* rows of the latest calendar date; a row whose date is "Aguardando" or
\* absent is never the one returned.
C5_PrimeiraDaMaiorData ==
    pc = "agregar" =>
        LET dt(j) == to_datetime(rows[j].Data)
            reais == {j \in 1..Len(rows) : dt(j) # NaT}
        IN reais # {} =>
              /\ Len(latest) = 1
              /\ latest[1].Data \notin {"Aguardando", None, "0,00"}
              /\ \E j \in reais :
                    /\ latest[1] = rows[j]
                    /\ \A n \in reais : dt(n) <= dt(j)
                    /\ \A n \in reais : n < j => dt(n) < dt(j)

\* two different rows share the latest date, one of an earlier date and of a
\* greater day of the month comes before them, and the first of the two was
\* returned
C5_Testemunha ==
    /\ pc = "agregar"
    /\ Len(rows) = 3 /\ Len(latest) = 1
    /\ to_datetime(rows[1].Data) # NaT
    /\ to_datetime(rows[1].Data) < to_datetime(rows[2].Data)
    /\ to_datetime(rows[2].Data) = to_datetime(rows[3].Data)
    /\ rows[2] # rows[3]
    /\ latest[1] = rows[2]

\* C6 as the specification states it: a row whose date has the dd/mm/yyyy
\* shape and is no calendar date never makes filter_most_recent raise, and
\* when no row has a real calendar date the result is empty.
C6_DataInvalidaSemErro ==
    /\ ~(pc = "erro" /\ section \notin {None, ""})
    /\ pc = "agregar" =>
          ((\A j \in 1..Len(rows) : to_datetime(rows[j].Data) = NaT) => latest = <<>>)

\* filter_most_recent of main.py raised on a table whose only dates of the
\* dd/mm/yyyy shape are no calendar dates
C6_Testemunha ==
    /\ pc = "erro" /\ impl = "main" /\ saida.exc = "KeyError"
    /\ \E j \in 1..Len(rows) : rows[j].Data = "31/02/2024"
    /\ \A j \in 1..Len(rows) : to_datetime(rows[j].Data) = NaT

\* C7: in every row surfaced to callers the total is
\* float_to_br(br_to_float(contractual) + br_to_float(succumbence)): the
\* three values returned by processar_secao5_comparativo, and each row of
\* df_final and of df_latest of tratamento.py. The token the classifier put
\* in the Total slot is not what is surfaced.
C7_TotalRecalculado ==
    LET soma(c, su) == float_to_br(float_add(br_to_float(c), br_to_float(su)))
    IN /\ (impl = "main" /\ pc = "fim") =>
             saida.val.total = soma(saida.val.contratual, saida.val.sucumbencia)
       /\ (impl = "tratamento" /\ pc \in {"filtrar", "agregar", "fim"}) =>
             \A j \in 1..Len(saida.val.df_final) :
                saida.val.df_final[j].total =
                   soma(saida.val.df_final[j].contratual, saida.val.df_final[j].sucumbencia)
       /\ (impl = "tratamento" /\ pc = "fim") =>
             \A j \in 1..Len(saida.val.df_latest) :
                saida.val.df_latest[j].total =
                   soma(saida.val.df_latest[j].contratual, saida.val.df_latest[j].sucumbencia)

\* the latest row had a fourth token in its Total slot that is not the sum of
\* its second and third, and the sum was returned
C7_Testemunha ==
    /\ impl = "main" /\ pc = "fim"
    /\ latest # <<>>
    /\ latest[1].Total = "2.000,00"
    /\ saida.val = Valores3("300,00", "700,00", "1.000,00")

(***************************************************************************)
(* Properties of the codec (SpecCodec)                                     *)
(***************************************************************************)
\* C8 as the specification states it: float_to_br(br_to_float(s)) = s for
\* every string s that NUM_PATTERN matches whole.
C8_IdaEVolta ==
    (pc = "formatado" /\ fullmatch_NUM(s)) => t = s

\* C8, amended: float_to_br(br_to_float(s)) = s for every string s that
\* NUM_PATTERN matches whole and that is written without a redundant leading
\* zero (its first digit is not "0", or its integer part is the single digit
\* "0"); the amounts of the model stay below the 15 significant digits a
\* float keeps.
C8_IdaEVoltaCanonica ==
    (pc = "formatado" /\ fullmatch_NUM(s) /\ (Char(s, 1) # "0" \/ Len(s) = 4)) => t = s

\* an amount with a thousands group went through the codec and came back
C8_Testemunha ==
    /\ pc = "formatado"
    /\ fullmatch_NUM(s)
    /\ Char(s, 1) # "0"
    /\ contains(s, ".")
    /\ t = s

\* C11 as the specification states it: br_to_float never raises, and it
\* returns 0.0 for the empty string, for None and for every string that is
\* no BR-locale decimal, that is, every string that with its "." removed and
\* its "," turned into "." is not a base-10 numeral of digits with at most
\* one decimal point (white space around it let pass).
C11_ZeroSeNaoDecimal ==
    pc \in {"convertido", "formatado"} =>
        LET u == IF s = None THEN "" ELSE strip(replace(replace(s, ".", ""), ",", "."))
            decimal == /\ \E p \in 1..Len(u) : IsDigit(Char(u, p))
                       /\ \A p \in 1..Len(u) : IsDigit(Char(u, p)) \/ Char(u, p) = "."
                       /\ Cardinality({p \in 1..Len(u) : Char(u, p) = "."}) <= 1
        IN /\ DOMAIN x = {"units", "cents", "special"}
           /\ ~decimal => x = ZERO

\* br_to_float was handed the name of a float that is no number and
\* returned that float, which float_to_br wrote back as its name
C11_Testemunha ==
    /\ pc = "formatado"
    /\ s = "nan"
    /\ x = NAN
    /\ t = "nan"

(***************************************************************************)
(* Properties of the section locator and of its caller (Spec)              *)
(***************************************************************************)
\* C9 as the specification states it: for a text without the section header
\* the locator gives an absent result, which is neither an exception nor the
\* empty text it gives for an empty section; for a text with the header it
\* gives the text from the end of the first header to the next section's
\* header, or to the end of the text, trimmed.
C9_AusenteOuTrecho ==
    pc \notin {"inicio", "lote", "retornou", "codec", "convertido", "formatado"} =>
        LET heads == {p \in 1..Len(texto) : HEADER_PATTERN(texto, p) # 0}
            h == HEADER_PATTERN(texto, Min(heads))
            nexts == {q \in h..Len(texto) : NEXT_HEADER(texto, q)}
            fim == IF nexts = {} THEN Len(texto) ELSE Min(nexts) - 1
        IN IF heads = {}
           THEN saida.exc # "AttributeError" /\ section # ""
           ELSE saida.exc # "AttributeError" /\ section = strip(SubSeq(texto, h, fim))

\* the locator raised on a text that has the header and no section after it
C9_Testemunha ==
    /\ pc = "erro" /\ saida.exc = "AttributeError"
    /\ \E p \in 1..Len(texto) : HEADER_PATTERN(texto, p) # 0

\* C10 as the specification states it: processar_secao5_comparativo returns
\* "0,00" three times and does not raise when the text has no section header,
\* and when the section has no dated row.
C10_ZerosSemRegistro ==
    (impl = "main" /\ pc \in {"fim", "erro"}) =>
        LET heads == {p \in 1..Len(texto) : HEADER_PATTERN(texto, p) # 0}
            sem_data == /\ section \notin {None}
                        /\ \A j \in 1..Len(lines) : ~DATE_PATTERN(lines[j])
        IN (heads = {} \/ sem_data) =>
              pc = "fim" /\ saida = Ok(Valores3("0,00", "0,00", "0,00"))

\* processar_secao5_comparativo raised on a text without the section header
C10_Testemunha ==
    /\ impl = "main" /\ pc = "erro" /\ saida.exc = "AttributeError"
    /\ \A p \in 1..Len(texto) : HEADER_PATTERN(texto, p) = 0

(***************************************************************************)
(* Properties of the scan of parse_table (SpecParseTable)                  *)
(***************************************************************************)
\* C12: for every sequence of normalized lines the scan of parse_table ends
\* with the cursor at the end of the sequence. Every iteration moves the
\* cursor forward and never past the end; it applies to the line under the
\* cursor the first rule that matches it, in the order header skip, dated
\* entry, pending block, fallback; a header, a dated line and a fallback line
\* are consumed alone, a pending block consumes the lines after it that start
\* neither a dated entry nor a pending block, so every line is consumed once;
\* and the row of the iteration, none for a header, is appended after the
\* rows of the lines before it.
C12_VarreduraTermina ==
    /\ [][(pc = "parse" /\ i < Len(lines)) =>
            LET ln == lines[i + 1]
                primeira == IF \/ startswith(lower(ln), "data valores")
                               \/ contains(ln, "(70%)") \/ contains(ln, "(30%)")
                            THEN "cabecalho"
                            ELSE IF DATE_PATTERN(ln) THEN "data"
                            ELSE IF startswith(ln, "Aguardando") THEN "aguardando"
                            ELSE "fallback"
                inicia(l) == DATE_PATTERN(l) \/ startswith(l, "Aguardando")
            IN /\ pc' = "parse"
               /\ i' > i /\ i' <= Len(lines)
               /\ regra' = primeira
               /\ primeira # "aguardando" => i' = i + 1
               /\ primeira = "aguardando" =>
                     /\ \A j \in (i + 2)..i' : ~inicia(lines[j])
                     /\ i' < Len(lines) => inicia(lines[i' + 1])
               /\ SubSeq(rows', 1, Len(rows)) = rows
               /\ Len(rows') = Len(rows) + (IF primeira = "cabecalho" THEN 0 ELSE 1)
               /\ primeira = "data" => rows'[Len(rows')].Data = first_word(ln)
               /\ primeira = "aguardando" => rows'[Len(rows')].Data = "Aguardando"
               /\ primeira = "fallback" =>
                     rows'[Len(rows')].Data = None /\ rows'[Len(rows')].Valores = ln]_vars
    /\ [][(pc = "parse" /\ i >= Len(lines)) =>
            (pc' # "parse" /\ i' = i /\ rows' = rows)]_vars
    /\ <>(pc # "parse" /\ i = Len(lines))

\* a scan of three lines has ended: the first, a header that begins with
\* "Aguardando", gave no row, the pending line after it gave one and the
\* dated line that ended its block gave the next
C12_Testemunha ==
    /\ pc \in {"filtrar", "etapas"}
    /\ Len(lines) = 3 /\ i = 3
    /\ startswith(lines[1], "Aguardando") /\ contains(lines[1], "(30%)")
    /\ Len(rows) = 2
    /\ rows[1].Data = "Aguardando"
    /\ rows[2].Data = first_word(lines[3]) /\ DATE_PATTERN(lines[3])

====
